---- MODULE Spec2Model ----
(***************************************************************************)
(* A model of src/crawler.py: the Crawler class of a Twitter social        *)
(* network crawler.  The six column dictionaries (tweet, user, follow,     *)
(* post, retweet, like), the update_* methods that fill them, the query    *)
(* composition of get_user_posts / get_user_retweets, the four page loops  *)
(* and the sequence crawl(); save() of the main program.                   *)
(*                                                                         *)
(* Python values are modelled as tagged tuples so that any two of them     *)
(* can be compared: None, PyInt(n), PyStr(s), PyBool(b), PyList(s) and    *)
(* PyDict(d).  str(user_id) (crawler.py:365-366) is PyStr(n), distinct     *)
(* from PyInt(n).                                                          *)
(***************************************************************************)
EXTENDS Integers, Sequences, FiniteSets, TLC

VARIABLES
    tweet_dict,     \* self.tweet_dict: column name -> list of cells
    user_dict,      \* self.user_dict: column name -> list of cells
    follow_dict,    \* self.follow_dict
    post_dict,      \* self.post_dict
    retweet_dict,   \* self.retweet_dict
    like_dict,      \* self.like_dict
    raised,         \* the exception in flight or caught: "" when none
    calls,          \* history: the update_* calls made on the stores, in order
    pc,             \* position of the main program / crawl()
    init_query,     \* what read_init() returns: the list of seed queries
    seed_users,     \* crawl()'s local seed_users (line 351)
    users,          \* crawl()'s local users (line 363)
    idx,            \* 1-based position of the running for loop of crawl()
    step,           \* which call of the loop body at lines 365-367 is next: 1..3
    fetch,          \* the running get_user_* call: its Paginator and pages seen
    fetches,        \* history: the get_user_* calls started, in order
    sleeps,         \* number of time.sleep calls made
    saved,          \* the files save() has written: name -> table
    qin,            \* query builder inputs (a call of get_user_posts / _retweets)
    query           \* the query string the call built

vars == <<tweet_dict, user_dict, follow_dict, post_dict, retweet_dict, like_dict,
          raised, calls, pc, init_query, seed_users, users, idx, step, fetch,
          fetches, sleeps, saved, qin, query>>

stores == <<tweet_dict, user_dict, follow_dict, post_dict, retweet_dict, like_dict>>
crawl_vars ==
    <<pc, init_query, seed_users, users, idx, step, fetch, fetches, sleeps, saved>>
query_vars == <<qin, query>>

-----------------------------------------------------------------------------
(* Bounds of the model. *)

\* pages the remote service delivers in a crawl run
MaxPages == 3
\* update_* calls made in a run of the store specification
MaxCalls == 3
\* ids (of users and of tweets) the store specification's calls draw from
MaxStoreId == 2

-----------------------------------------------------------------------------
(* Python values. *)

None == <<"None">>
PyInt(n) == <<"int", n>>
PyStr(s) == <<"str", s>>
PyBool(b) == <<"bool", b>>
PyList(s) == <<"list", s>>
PyDict(d) == <<"dict", d>>

\* str(x) of an int (crawler.py:365, 366): its decimal text
str(x) == PyStr(ToString(x[2]))

Range(s) == {s[i] : i \in DOMAIN s}

\* Python truthiness, as `not x` and `x and ...` use it
Truthy(v) ==
    CASE v = None -> FALSE
      [] v[1] = "bool" -> v[2]
      [] v[1] = "int" -> v[2] # 0
      [] v[1] = "list" -> Len(v[2]) > 0
      [] v[1] = "str" -> v[2] # ""
      [] v[1] = "dict" -> DOMAIN v[2] # {}
      [] OTHER -> TRUE

\* tweepy's DataMapping.get(field): the attribute, or None when there is none
Get(obj, field) == IF field \in DOMAIN obj THEN obj[field] ELSE None

-----------------------------------------------------------------------------
(* Configuration: the field lists of config.TWEET_FIELDS / USER_FIELDS. *)

TWEET_FIELDS == <<"id", "author_id", "entities">>
USER_FIELDS == <<"id", "protected", "public_metrics">>
METRIC_FIELDS == <<"followers_count", "following_count", "tweet_count">>

Without(s, x) == SelectSeq(s, LAMBDA f : f # x)

\* the keys of self.tweet_dict, in dict order (crawler.py:62-64)
TweetCols ==
    Without(TWEET_FIELDS, "entities")
        \o (IF "entities" \in Range(TWEET_FIELDS) THEN <<"tag">> ELSE <<>>)

\* the keys of self.user_dict, in dict order (crawler.py:67-69)
UserCols ==
    Without(USER_FIELDS, "public_metrics")
        \o (IF "public_metrics" \in Range(USER_FIELDS) THEN METRIC_FIELDS ELSE <<>>)

RelCols(object) == <<"user_id", object>>

EmptyTable(cols) == [f \in Range(cols) |-> <<>>]

ColIndex(cols, f) == CHOOSE i \in DOMAIN cols : cols[i] = f

\* whether all columns of a table have the same length
SameLength(table) ==
    \A f, g \in DOMAIN table : Len(table[f]) = Len(table[g])

-----------------------------------------------------------------------------
(* Entity store: update_tweet, update_user. *)

HasHashtags(tweet) ==
    /\ Truthy(tweet.entities)
    /\ "hashtags" \in DOMAIN tweet.entities[2]

\* the value update_tweet stores in column `field` (crawler.py:110-115)
TweetValueReversed(tweet, field) ==
    IF field = "tag" /\ HasHashtags(tweet)
    THEN LET h == tweet.entities[2].hashtags
         IN  PyList([i \in 1..Len(h) |-> h[Len(h) + 1 - i].tag])
    ELSE Get(tweet, field)

TweetValue(tweet, field) ==
    IF field = "tag" /\ HasHashtags(tweet)
    THEN LET h == tweet.entities[2].hashtags
         IN  PyList([i \in 1..Len(h) |-> h[i].tag])
    ELSE Get(tweet, field)

\* update_tweet with the membership test dropped: every call appends
update_tweet_always(td, tweet) ==
    [f \in DOMAIN td |-> Append(td[f], TweetValue(tweet, f))]

\* update_tweet (crawler.py:101-117): the new self.tweet_dict
update_tweet(td, tweet) ==
    IF tweet.id \notin Range(td["id"])
    THEN [f \in DOMAIN td |-> Append(td[f], TweetValue(tweet, f))]
    ELSE td

\* whether computing the value of column `field` raises (crawler.py:140):
\* None["followers_count"] is a TypeError, a missing key a KeyError
UserValueRaises(user, field) ==
    /\ field \in Range(METRIC_FIELDS)
    /\ \/ user.public_metrics = None
       \/ user.public_metrics[1] # "dict"
       \/ field \notin DOMAIN user.public_metrics[2]

\* the value update_user stores in column `field` (crawler.py:139-144)
UserValue(user, field) ==
    IF field \in Range(METRIC_FIELDS)
    THEN user.public_metrics[2][field]
    ELSE Get(user, field)

\* the number of columns update_user fills before it raises
FilledBeforeRaise(user) ==
    LET bad == {i \in DOMAIN UserCols : UserValueRaises(user, UserCols[i])}
    IN  IF bad = {} THEN Len(UserCols)
        ELSE (CHOOSE i \in bad : \A j \in bad : i <= j) - 1

\* update_user (crawler.py:130-146): the new self.user_dict and whether the
\* call raised; the columns before the raising one keep their appended cell
update_user(ud, user) ==
    IF user.id \notin Range(ud["id"])
    THEN LET n == FilledBeforeRaise(user)
         IN  [dict |-> [f \in DOMAIN ud |->
                          IF ColIndex(UserCols, f) <= n
                          THEN Append(ud[f], UserValue(user, f))
                          ELSE ud[f]],
              raised |-> n < Len(UserCols)]
    ELSE [dict |-> ud, raised |-> FALSE]

RECURSIVE update_users(_, _)
\* update_users (crawler.py:149-156): stops at the first call that raises
update_users(ud, us) ==
    IF us = <<>> THEN [dict |-> ud, raised |-> FALSE]
    ELSE LET r == update_user(ud, Head(us))
         IN  IF r.raised THEN r ELSE update_users(r.dict, Tail(us))

-----------------------------------------------------------------------------
(* Relation store: update_following, update_post, update_retweet,          *)
(* update_like.                                                            *)

\* a relation append that skips a pair already stored
AppendPairDedup(rd, object, user_id, object_id) ==
    IF \E i \in DOMAIN rd["user_id"] :
           rd["user_id"][i] = user_id /\ rd[object][i] = object_id
    THEN rd
    ELSE [f \in DOMAIN rd |->
            Append(rd[f], IF f = "user_id" THEN user_id ELSE object_id)]

\* an update_<relation> method that puts the new pair first
InsertPairFirst(rd, object, user_id, object_id) ==
    [f \in DOMAIN rd |->
        <<IF f = "user_id" THEN user_id ELSE object_id>> \o rd[f]]

\* the two appends of an update_<relation> method
AppendPair(rd, object, user_id, object_id) ==
    [f \in DOMAIN rd |->
        Append(rd[f], IF f = "user_id" THEN user_id ELSE object_id)]

\* update_following (crawler.py:159-167)
update_following(fd, user_id, following_id) ==
    AppendPair(fd, "following_id", user_id, following_id)

\* update_post (crawler.py:170-178)
update_post(pd, user_id, tweet_id) == AppendPair(pd, "tweet_id", user_id, tweet_id)

\* update_retweet (crawler.py:181-189)
update_retweet(rd, user_id, tweet_id) == AppendPair(rd, "tweet_id", user_id, tweet_id)

\* update_like (crawler.py:192-200)
update_like(ld, user_id, tweet_id) == AppendPair(ld, "tweet_id", user_id, tweet_id)

-----------------------------------------------------------------------------
(* Query builder: the query strings of get_user_posts (crawler.py:240-244) *)
(* and get_user_retweets (crawler.py:285-287).  A token is None or a       *)
(* PyStr.                                                                  *)

\* config.QUERY and config.RETWEET_QUERY, the base templates
QUERY == "Q"
RETWEET_QUERY == "is:retweet"

\* s.startswith(p)
startswith(s, p) == Len(s) >= Len(p) /\ SubSeq(s, 1, Len(p)) = p

\* an author modifier that prefixes every token
UserModifierAlwaysPrefixed(user) ==
    IF ~Truthy(user) THEN ""
    ELSE " (from:" \o user[2] \o ")"

\* the text `query += ...` adds for the user argument (crawler.py:242, 287)
UserModifier(user) ==
    IF ~Truthy(user) THEN ""
    ELSE IF startswith(user[2], "from:") THEN " (" \o user[2] \o ")"
    ELSE " (from:" \o user[2] \o ")"

\* the text `query += ...` adds for the context argument (crawler.py:243)
ContextModifier(context) ==
    IF ~Truthy(context) THEN ""
    ELSE IF startswith(context[2], "context:") THEN " (" \o context[2] \o ")"
    ELSE " (context:" \o context[2] \o ")"

\* the text `query += ...` adds for the keyword argument (crawler.py:244)
KeywordModifier(keyword) ==
    IF ~Truthy(keyword) THEN "" ELSE " (" \o keyword[2] \o ")"

\* the query of get_user_posts (crawler.py:241-244)
PostsQuery(user, context, keyword) ==
    QUERY \o UserModifier(user) \o ContextModifier(context) \o KeywordModifier(keyword)

\* the query of get_user_retweets (crawler.py:286-287)
RetweetsQuery(user) == RETWEET_QUERY \o UserModifier(user)

-----------------------------------------------------------------------------
(* The stores as __init__ leaves them (crawler.py:61-75). *)

StoresInit ==
    /\ tweet_dict = EmptyTable(TweetCols)
    /\ user_dict = EmptyTable(UserCols)
    /\ follow_dict = EmptyTable(RelCols("following_id"))
    /\ post_dict = EmptyTable(RelCols("tweet_id"))
    /\ retweet_dict = EmptyTable(RelCols("tweet_id"))
    /\ like_dict = EmptyTable(RelCols("tweet_id"))

\* the crawl and query variables of a run that only exercises the stores
Idle ==
    /\ pc = "idle"
    /\ init_query = <<>>
    /\ seed_users = <<>>
    /\ users = <<>>
    /\ idx = 0
    /\ step = 0
    /\ fetch = [op |-> "none"]
    /\ fetches = <<>>
    /\ sleeps = 0
    /\ saved = <<>>

QueryIdle == qin = [op |-> "none"] /\ query = ""

-----------------------------------------------------------------------------
(* Store specification: the update_* methods called in any order with any  *)
(* payload, as the page loops call them.  A call that raises ends the run: *)
(* the only caller is crawl(), whose except clause ends the crawl.         *)

Hashtag(t) == [tag |-> t, start |-> 0]

Metrics(n) ==
    PyDict([followers_count |-> PyInt(n), following_count |-> PyInt(n + 1),
            tweet_count |-> PyInt(n + 2)])

StoreEntities ==
    { None,
      PyDict([urls |-> <<>>]),
      PyDict([hashtags |-> <<Hashtag("a"), Hashtag("b")>>]) }

StoreTweets ==
    [id : {PyInt(n) : n \in 1..MaxStoreId}, author_id : {PyInt(1)},
     entities : StoreEntities]

StoreUsers ==
    [id : {PyInt(n) : n \in 1..MaxStoreId}, protected : {PyBool(FALSE)},
     public_metrics : {None, Metrics(1), Metrics(2)}]

StoreIds == {PyInt(n) : n \in 1..MaxStoreId}

StoreInit ==
    /\ StoresInit
    /\ raised = ""
    /\ calls = <<>>
    /\ Idle
    /\ QueryIdle

CanCall == raised = "" /\ Len(calls) < MaxCalls

CallUpdateTweet ==
    \E tweet \in StoreTweets :
        /\ CanCall
        /\ tweet_dict' = update_tweet(tweet_dict, tweet)
        /\ calls' = Append(calls, [op |-> "update_tweet", arg |-> tweet])
        /\ UNCHANGED <<user_dict, follow_dict, post_dict, retweet_dict, like_dict,
                       raised, crawl_vars, query_vars>>

CallUpdateUser ==
    \E user \in StoreUsers :
        /\ CanCall
        /\ LET r == update_user(user_dict, user)
           IN  /\ user_dict' = r.dict
               /\ raised' = IF r.raised THEN "update_user" ELSE ""
        /\ calls' = Append(calls, [op |-> "update_user", arg |-> user])
        /\ UNCHANGED <<tweet_dict, follow_dict, post_dict, retweet_dict, like_dict,
                       crawl_vars, query_vars>>

CallUpdateFollowing ==
    \E a \in StoreIds, b \in {PyInt(1)} :
        /\ CanCall
        /\ follow_dict' = update_following(follow_dict, a, b)
        /\ calls' = Append(calls, [op |-> "update_following", arg |-> <<a, b>>])
        /\ UNCHANGED <<tweet_dict, user_dict, post_dict, retweet_dict, like_dict,
                       raised, crawl_vars, query_vars>>

CallUpdatePost ==
    \E a \in StoreIds, b \in {PyInt(1)} :
        /\ CanCall
        /\ post_dict' = update_post(post_dict, a, b)
        /\ calls' = Append(calls, [op |-> "update_post", arg |-> <<a, b>>])
        /\ UNCHANGED <<tweet_dict, user_dict, follow_dict, retweet_dict, like_dict,
                       raised, crawl_vars, query_vars>>

CallUpdateRetweet ==
    \E a \in StoreIds, b \in {PyInt(1)} :
        /\ CanCall
        /\ retweet_dict' = update_retweet(retweet_dict, str(a), b)
        /\ calls' = Append(calls, [op |-> "update_retweet", arg |-> <<str(a), b>>])
        /\ UNCHANGED <<tweet_dict, user_dict, follow_dict, post_dict, like_dict,
                       raised, crawl_vars, query_vars>>

CallUpdateLike ==
    \E a \in StoreIds, b \in {PyInt(1)} :
        /\ CanCall
        /\ like_dict' = update_like(like_dict, a, b)
        /\ calls' = Append(calls, [op |-> "update_like", arg |-> <<a, b>>])
        /\ UNCHANGED <<tweet_dict, user_dict, follow_dict, post_dict, retweet_dict,
                       raised, crawl_vars, query_vars>>

StoreNext ==
    \/ CallUpdateTweet
    \/ CallUpdateUser
    \/ CallUpdateFollowing
    \/ CallUpdatePost
    \/ CallUpdateRetweet
    \/ CallUpdateLike

SpecStore == StoreInit /\ [][StoreNext]_vars

-----------------------------------------------------------------------------
(* Claims about the stores, checked under SpecStore. *)

\* the arguments of the calls of `op`, in call order
RECURSIVE ArgsOf(_, _)
ArgsOf(log, op) ==
    IF log = <<>> THEN <<>>
    ELSE (IF Head(log).op = op THEN <<Head(log).arg>> ELSE <<>>)
             \o ArgsOf(Tail(log), op)

\* the first payload of `log` that carries `id`
FirstWith(log, id) ==
    log[CHOOSE i \in DOMAIN log :
            /\ log[i].id = id
            /\ \A j \in DOMAIN log : log[j].id = id => i <= j]

FirstPos(log, id) ==
    CHOOSE i \in DOMAIN log :
        /\ log[i].id = id
        /\ \A j \in DOMAIN log : log[j].id = id => i <= j

\* one id cell per identifier observed, in the order of first observation
OneRowPerId(table, log) ==
    LET ids == table["id"]
    IN  /\ \A i, j \in DOMAIN ids : ids[i] = ids[j] => i = j
        /\ Range(ids) = {log[k].id : k \in DOMAIN log}
        /\ \A i, j \in DOMAIN ids :
               i < j => FirstPos(log, ids[i]) < FirstPos(log, ids[j])

\* C1: after any sequence of update_tweet / update_user calls each table
\* holds one row per identifier observed, and every cell stored in the row of
\* an identifier is the normalised value of the FIRST payload observed for
\* it; later payloads with the same id leave no trace.
C1_FirstSeenWins ==
    LET tlog == ArgsOf(calls, "update_tweet")
        ulog == ArgsOf(calls, "update_user")
    IN  /\ OneRowPerId(tweet_dict, tlog)
        /\ OneRowPerId(user_dict, ulog)
        /\ \A f \in DOMAIN tweet_dict : \A i \in DOMAIN tweet_dict[f] :
               tweet_dict[f][i] = TweetValue(FirstWith(tlog, tweet_dict["id"][i]), f)
        /\ \A f \in DOMAIN user_dict : \A i \in DOMAIN user_dict[f] :
               user_dict[f][i] = UserValue(FirstWith(ulog, user_dict["id"][i]), f)

\* C1 witness: the same tweet id was upserted twice with different payloads
\* and the tweet table holds a single row
C1_Witness ==
    LET tlog == ArgsOf(calls, "update_tweet")
        ulog == ArgsOf(calls, "update_user")
    IN  /\ \E i, j \in DOMAIN tlog :
               i < j /\ tlog[i].id = tlog[j].id /\ tlog[i] # tlog[j]
        /\ \A f \in DOMAIN tweet_dict : Len(tweet_dict[f]) = 1
        /\ Len(calls) = MaxCalls

\* C2: the rows of each relation table are exactly the pairs of the
\* update_<relation> calls made on it, one row per call, in call order,
\* whether or not the pair repeats or its endpoints are stored entities.
RowsAre(table, object, log) ==
    /\ Len(table["user_id"]) = Len(log)
    /\ Len(table[object]) = Len(log)
    /\ \A i \in DOMAIN log :
           table["user_id"][i] = log[i][1] /\ table[object][i] = log[i][2]

C2_RelationAppends ==
    /\ RowsAre(follow_dict, "following_id", ArgsOf(calls, "update_following"))
    /\ RowsAre(post_dict, "tweet_id", ArgsOf(calls, "update_post"))
    /\ RowsAre(retweet_dict, "tweet_id", ArgsOf(calls, "update_retweet"))
    /\ RowsAre(like_dict, "tweet_id", ArgsOf(calls, "update_like"))

\* C2 witness: the same follow pair was recorded twice and is stored twice,
\* while neither endpoint is in the user table; a like of a tweet that is not
\* in the tweet table is stored as well
C2_Witness ==
    /\ Len(follow_dict["user_id"]) = 2
    /\ follow_dict["user_id"][1] = follow_dict["user_id"][2]
    /\ follow_dict["following_id"][1] = follow_dict["following_id"][2]
    /\ follow_dict["user_id"][1] \notin Range(user_dict["id"])
    /\ follow_dict["following_id"][1] \notin Range(user_dict["id"])
    /\ Len(like_dict["tweet_id"]) = 1
    /\ like_dict["tweet_id"][1] \notin Range(tweet_dict["id"])

\* C9: update_tweet and update_user never raise, whatever attribute of the
\* record is absent, and every row they append is complete.
C9_NeverRaises ==
    /\ raised = ""
    /\ SameLength(tweet_dict)
    /\ SameLength(user_dict)

\* C10: with "entities" in the post attribute list, the tag cell of a stored
\* post is the list of the tag strings of its hashtags, in their order, when
\* its entities carry hashtags, and the absent value otherwise.
C10_TagDerivation ==
    LET tlog == ArgsOf(calls, "update_tweet")
    IN  /\ "entities" \in Range(TWEET_FIELDS)
        /\ "tag" \in DOMAIN tweet_dict
        /\ \A i \in DOMAIN tweet_dict["tag"] :
               LET e == FirstWith(tlog, tweet_dict["id"][i]).entities
                   cell == tweet_dict["tag"][i]
               IN  IF e # None /\ "hashtags" \in DOMAIN e[2]
                   THEN /\ cell[1] = "list"
                        /\ Len(cell[2]) = Len(e[2].hashtags)
                        /\ \A k \in DOMAIN cell[2] : cell[2][k] = e[2].hashtags[k].tag
                   ELSE cell = None

\* C10 witness: a post with the hashtags a, b is stored with the tags <<a, b>>,
\* next to a post without entities and one whose entities have no hashtags
C10_Witness ==
    /\ \E i \in DOMAIN tweet_dict["tag"] :
           tweet_dict["tag"][i] = PyList(<<"a", "b">>)
    /\ \E c \in Range(ArgsOf(calls, "update_tweet")) : c.entities = None
    /\ \E c \in Range(ArgsOf(calls, "update_tweet")) :
           c.entities = PyDict([urls |-> <<>>])
    /\ Len(tweet_dict["tag"]) = 2

-----------------------------------------------------------------------------
(* Query specification: get_user_posts / get_user_retweets called with any *)
(* tokens, up to the query they build.                                     *)

UserTokens ==
    {None} \cup {PyStr(t) : t \in {"", "alice", "from:bob", "1", "from", "fromage:x"}}
ContextTokens == {None} \cup {PyStr(t) : t \in {"", "131.84", "context:131.84"}}
KeywordTokens == {None} \cup {PyStr(t) : t \in {"", "cats", "#tag"}}

QueryInit ==
    /\ StoresInit
    /\ raised = ""
    /\ calls = <<>>
    /\ Idle
    /\ QueryIdle

BuildPostsQuery ==
    \E user \in UserTokens, context \in ContextTokens, keyword \in KeywordTokens :
        /\ qin' = [op |-> "posts", user |-> user, context |-> context,
                   keyword |-> keyword]
        /\ query' = PostsQuery(user, context, keyword)
        /\ UNCHANGED <<stores, raised, calls, crawl_vars>>

BuildRetweetsQuery ==
    \E user \in UserTokens :
        /\ qin' = [op |-> "retweets", user |-> user, context |-> None,
                   keyword |-> None]
        /\ query' = RetweetsQuery(user)
        /\ UNCHANGED <<stores, raised, calls, crawl_vars>>

QueryNext == BuildPostsQuery \/ BuildRetweetsQuery

SpecQuery == QueryInit /\ [][QueryNext]_vars

\* a modifier is present when the token is given and not empty
Present(token) == token # None /\ token[2] # ""

Marked(token, marker) ==
    IF Len(token[2]) >= Len(marker) /\ SubSeq(token[2], 1, Len(marker)) = marker
    THEN token[2]
    ELSE marker \o token[2]

Parenthesised(m) == " (" \o m \o ")"

\* C5: the query built is the base template followed by the " (modifier)"
\* suffixes of the modifiers present, in the order author, context, keyword;
\* an author token that starts with "from:" is used as it is and any other
\* is prefixed with "from:", a context token likewise with "context:".
C5_QueryComposition ==
    qin.op # "none" =>
        /\ query =
              (IF qin.op = "posts" THEN "Q" ELSE "is:retweet")
              \o (IF Present(qin.user)
                  THEN Parenthesised(Marked(qin.user, "from:")) ELSE "")
              \o (IF Present(qin.context)
                  THEN Parenthesised(Marked(qin.context, "context:")) ELSE "")
              \o (IF Present(qin.keyword) THEN Parenthesised(qin.keyword[2]) ELSE "")
        /\ (qin = [op |-> "posts", user |-> PyStr("alice"), context |-> None,
                   keyword |-> PyStr("cats")]) => query = "Q (from:alice) (cats)"
        /\ (qin = [op |-> "posts", user |-> PyStr("from:bob"), context |-> None,
                   keyword |-> None]) => query = "Q (from:bob)"

\* C5 witness: a query with all three modifiers, the author token already
\* marked and the context token not
C5_Witness ==
    /\ qin = [op |-> "posts", user |-> PyStr("from:bob"),
              context |-> PyStr("131.84"), keyword |-> PyStr("cats")]
    /\ query = "Q (from:bob) (context:131.84) (cats)"

-----------------------------------------------------------------------------
(* Page loops: what one iteration of `for page in pages` does to the       *)
(* stores (crawler.py:218-224, 266-274, 305-310, 330-335).                 *)

\* config.<OP>_MAX_RESULTS and config.<OP>_LIMIT: page size and page count
\* limit of each Paginator
INIT_MAX_RESULTS == 1
INIT_LIMIT == 2
POST_MAX_RESULTS == 1
POST_LIMIT == 1
RETWEET_MAX_RESULTS == 2
RETWEET_LIMIT == 2
LIKE_MAX_RESULTS == 2
LIKE_LIMIT == 1
FOLLOWING_MAX_RESULTS == 2
FOLLOWING_LIMIT == 2

\* a page test that looks at the result count only
PageOkByCount(page) == page.meta.result_count > 0

\* the test every loop makes before it reads a page's data
PageOk(page) == Len(page.errors) = 0 /\ page.meta.result_count > 0

RECURSIVE FollowingsLoop(_, _, _, _)
\* `for following_user in following_users.data` (crawler.py:221-224)
FollowingsLoop(fd, ud, user_id, data) ==
    IF data = <<>> THEN [follow |-> fd, user |-> ud, raised |-> ""]
    ELSE LET following_user == Head(data)
         IN  IF ~Truthy(following_user.protected)
             THEN LET fd1 == update_following(fd, user_id, following_user.id)
                      r == update_user(ud, following_user)
                  IN  IF r.raised
                      THEN [follow |-> fd1, user |-> r.dict, raised |-> "TypeError"]
                      ELSE FollowingsLoop(fd1, r.dict, user_id, Tail(data))
             ELSE FollowingsLoop(fd, ud, user_id, Tail(data))

RECURSIVE PostsLoop(_, _, _)
\* `for post in posts.data` (crawler.py:269-271)
PostsLoop(pd, td, data) ==
    IF data = <<>> THEN [post |-> pd, tweet |-> td]
    ELSE PostsLoop(update_post(pd, Head(data).author_id, Head(data).id),
                   update_tweet(td, Head(data)), Tail(data))

\* the body of `if not posts.errors ...` of get_user_posts (crawler.py:269-274):
\* posts.includes["users"] is a KeyError when the page side-loads no users
PostsPage(pd, td, ud, page) ==
    LET l == PostsLoop(pd, td, page.data)
    IN  IF "users" \notin DOMAIN page.includes
        THEN [post |-> l.post, tweet |-> l.tweet, user |-> ud, raised |-> "KeyError"]
        ELSE LET r == update_users(ud, page.includes.users)
             IN  [post |-> l.post, tweet |-> l.tweet, user |-> r.dict,
                  raised |-> IF r.raised THEN "TypeError" ELSE ""]

RECURSIVE RetweetsLoopReversed(_, _, _, _)
\* the loop of get_user_retweets taking the page's results last to first
RetweetsLoopReversed(rd, td, user, data) ==
    IF data = <<>> THEN [retweet |-> rd, tweet |-> td]
    ELSE LET last == data[Len(data)]
         IN  RetweetsLoopReversed(update_retweet(rd, user, last.id),
                                  update_tweet(td, last), user,
                                  SubSeq(data, 1, Len(data) - 1))

RECURSIVE RetweetsLoopByAuthor(_, _, _, _)
\* the loop of get_user_retweets storing the author of each result as subject
RetweetsLoopByAuthor(rd, td, user, data) ==
    IF data = <<>> THEN [retweet |-> rd, tweet |-> td]
    ELSE RetweetsLoopByAuthor(update_retweet(rd, Head(data).author_id, Head(data).id),
                              update_tweet(td, Head(data)), user, Tail(data))

RECURSIVE RetweetsLoop(_, _, _, _)
\* `for retweet in retweets.data` (crawler.py:308-310)
RetweetsLoop(rd, td, user, data) ==
    IF data = <<>> THEN [retweet |-> rd, tweet |-> td]
    ELSE RetweetsLoop(update_retweet(rd, user, Head(data).id),
                      update_tweet(td, Head(data)), user, Tail(data))

RECURSIVE LikesLoopNoUpsert(_, _, _, _)
\* the loop of get_user_liked_tweets without the call of update_tweet
LikesLoopNoUpsert(ld, td, user_id, data) ==
    IF data = <<>> THEN [like |-> ld, tweet |-> td]
    ELSE LikesLoopNoUpsert(update_like(ld, user_id, Head(data).id), td, user_id,
                           Tail(data))

RECURSIVE LikesLoop(_, _, _, _)
\* `for like in likes.data` (crawler.py:333-335)
LikesLoop(ld, td, user_id, data) ==
    IF data = <<>> THEN [like |-> ld, tweet |-> td]
    ELSE LikesLoop(update_like(ld, user_id, Head(data).id),
                   update_tweet(td, Head(data)), user_id, Tail(data))

-----------------------------------------------------------------------------
(* The remote service: the accounts and tweets its pages are made of, and  *)
(* the pages a Paginator can yield.                                        *)

RemoteUser(n, protected, metrics) ==
    [id |-> PyInt(n), protected |-> PyBool(protected),
     public_metrics |-> IF metrics THEN Metrics(n) ELSE None]

\* two open accounts, a protected one, and an open one whose payload comes
\* without public_metrics
RemoteUsers ==
    { RemoteUser(1, FALSE, TRUE), RemoteUser(2, FALSE, TRUE),
      RemoteUser(3, TRUE, TRUE), RemoteUser(4, FALSE, FALSE) }

RemoteTweets ==
    { [id |-> PyInt(1), author_id |-> PyInt(1), entities |-> None],
      [id |-> PyInt(2), author_id |-> PyInt(2),
       entities |-> PyDict([hashtags |-> <<Hashtag("a")>>])] }

\* the sequences over S of length 1..n
RECURSIVE SeqsUpTo(_, _)
SeqsUpTo(S, n) ==
    IF n = 0 THEN {}
    ELSE LET shorter == SeqsUpTo(S, n - 1)
         IN  {<<x>> : x \in S} \cup shorter \cup
             {Append(q, x) : q \in {t \in shorter : Len(t) = n - 1}, x \in S}

NoIncludes == [k \in {} |-> <<>>]

Page(errors, count, data, includes) ==
    [errors |-> errors, meta |-> [result_count |-> count], data |-> data,
     includes |-> includes]

\* the pages without results or with an error marker: an empty page, and
\* pages that carry data under an error marker
SkippedPages(records) ==
    { Page(<<>>, 0, <<>>, NoIncludes) }
    \cup { Page(<<"error">>, 1, <<r>>, NoIncludes) : r \in records }

\* the pages of a search (crawler.py:254-263, 293-302) or of liked tweets
\* (crawler.py:320-327): up to max_results tweets
TweetPages(max_results) ==
    { Page(<<>>, Len(d), d, NoIncludes) : d \in SeqsUpTo(RemoteTweets, max_results) }
    \cup SkippedPages({CHOOSE t \in RemoteTweets : t.id = PyInt(1)})

\* the user lists a post search side-loads (expansions): none, one account
\* or the two open accounts
PostIncludes ==
    {NoIncludes} \cup {[users |-> <<u>>] : u \in RemoteUsers}
    \cup {[users |-> <<RemoteUser(1, FALSE, TRUE), RemoteUser(2, FALSE, TRUE)>>]}

\* the pages of a post search
PostPages(max_results) ==
    { Page(<<>>, Len(d), d, i) :
        d \in SeqsUpTo(RemoteTweets, max_results), i \in PostIncludes }
    \cup SkippedPages({CHOOSE t \in RemoteTweets : t.id = PyInt(1)})

\* the pages of get_users_following (crawler.py:210-215): distinct accounts
FollowingPages(max_results) ==
    { Page(<<>>, Len(d), d, NoIncludes) :
        d \in {q \in SeqsUpTo(RemoteUsers, max_results) :
                 \A i, j \in DOMAIN q : i # j => q[i] # q[j]} }
    \cup SkippedPages({CHOOSE u \in RemoteUsers : u.id = PyInt(2)})

PagesOf(f) ==
    CASE f.op = "followings" -> FollowingPages(f.max_results)
      [] f.op = "posts" -> PostPages(f.max_results)
      [] OTHER -> TweetPages(f.max_results)

-----------------------------------------------------------------------------
(* The main program: crawl() (crawler.py:346-382) and save()               *)
(* (crawler.py:385-397), as __main__ runs them (crawler.py:404-406).       *)

\* the seed files read_init() may load (crawler.py:89-98)
SeedLists ==
    { << [user |-> PyStr("from:acct1")] >>,
      << [user |-> PyStr("acct1")], [keyword |-> PyStr("cats")] >> }

NoFetch == [op |-> "none"]

\* no page in hand
NoPage == [errors |-> <<>>, none |-> TRUE]

\* the table lengths and the count of delays a fetch starts from
Lengths ==
    [tweet |-> Len(tweet_dict["id"]), user |-> Len(user_dict["id"]),
     follow |-> Len(follow_dict["user_id"]), post |-> Len(post_dict["user_id"]),
     retweet |-> Len(retweet_dict["user_id"]), like |-> Len(like_dict["user_id"]),
     sleeps |-> sleeps]

\* a get_user_* call up to its Paginator: nothing fetched yet
NewFetch(op, arg, q, is_init, max_results, limit) ==
    [op |-> op, arg |-> arg, query |-> q, is_init |-> is_init,
     max_results |-> max_results, limit |-> limit,
     pages |-> <<>>, page |-> NoPage, start |-> Lengths]

\* what the history `fetches` keeps of a call: its arguments
CallOf(f) ==
    [op |-> f.op, arg |-> f.arg, query |-> f.query, is_init |-> f.is_init,
     max_results |-> f.max_results, limit |-> f.limit]

Init ==
    /\ StoresInit
    /\ raised = ""
    /\ calls = <<>>
    /\ pc = "Init"
    /\ init_query \in SeedLists
    /\ seed_users = <<>>
    /\ users = <<>>
    /\ idx = 0
    /\ step = 0
    /\ fetch = NoFetch
    /\ fetches = <<>>
    /\ sleeps = 0
    /\ saved = <<>>
    /\ QueryIdle

Between == raised = "" /\ fetch = NoFetch

\* crawl() enters init_seed_tweets, which reads the seeds (crawler.py:350, 341)
StartCrawl ==
    /\ pc = "Init"
    /\ pc' = "SeedExpansion"
    /\ idx' = 1
    /\ UNCHANGED <<stores, raised, calls, init_query, seed_users, users, step,
                   fetch, fetches, sleeps, saved, query_vars>>

\* get_user_posts(**query, is_init=True) up to its Paginator (crawler.py:343)
SeedFetch ==
    /\ pc = "SeedExpansion" /\ Between
    /\ idx <= Len(init_query)
    /\ LET q == init_query[idx]
           f == NewFetch("posts", Get(q, "user"),
                         PostsQuery(Get(q, "user"), Get(q, "context"),
                                    Get(q, "keyword")),
                         TRUE, INIT_MAX_RESULTS, INIT_LIMIT)
       IN  /\ fetch' = f
           /\ fetches' = Append(fetches, CallOf(f))
    /\ UNCHANGED <<stores, raised, calls, pc, init_query, seed_users, users, idx,
                   step, sleeps, saved, query_vars>>

\* the seed loop is over: seed_users = list(self.user_dict["id"]) (line 351)
SeedDone ==
    /\ pc = "SeedExpansion" /\ Between
    /\ idx > Len(init_query)
    /\ seed_users' = user_dict["id"]
    /\ pc' = "FollowExpansion"
    /\ idx' = 1
    /\ UNCHANGED <<stores, raised, calls, init_query, users, step, fetch, fetches,
                   sleeps, saved, query_vars>>

\* a follow loop that walks the user table as it grows
FollowFetchLive ==
    /\ pc = "FollowExpansion" /\ Between
    /\ idx <= Len(user_dict["id"])
    /\ fetch' = NewFetch("followings", user_dict["id"][idx], "", FALSE,
                         FOLLOWING_MAX_RESULTS, FOLLOWING_LIMIT)
    /\ fetches' = Append(fetches, CallOf(fetch'))
    /\ UNCHANGED <<stores, raised, calls, pc, init_query, seed_users, users, idx,
                   step, sleeps, saved, query_vars>>

\* get_user_followings(user_id) up to its Paginator (crawler.py:358-359)
FollowFetch ==
    /\ pc = "FollowExpansion" /\ Between
    /\ idx <= Len(seed_users)
    /\ fetch' = NewFetch("followings", seed_users[idx], "", FALSE,
                         FOLLOWING_MAX_RESULTS, FOLLOWING_LIMIT)
    /\ fetches' = Append(fetches, CallOf(fetch'))
    /\ UNCHANGED <<stores, raised, calls, pc, init_query, seed_users, users, idx,
                   step, sleeps, saved, query_vars>>

\* a follow loop after which the frontier is not taken again
FollowDoneStale ==
    /\ pc = "FollowExpansion" /\ Between
    /\ idx > Len(seed_users)
    /\ users' = seed_users
    /\ pc' = "InteractionExpansion"
    /\ idx' = 1
    /\ step' = 1
    /\ UNCHANGED <<stores, raised, calls, init_query, seed_users, fetch, fetches,
                   sleeps, saved, query_vars>>

\* the follow loop is over: users = list(self.user_dict["id"]) (line 363)
FollowDone ==
    /\ pc = "FollowExpansion" /\ Between
    /\ idx > Len(seed_users)
    /\ users' = user_dict["id"]
    /\ pc' = "InteractionExpansion"
    /\ idx' = 1
    /\ step' = 1
    /\ UNCHANGED <<stores, raised, calls, init_query, seed_users, fetch, fetches,
                   sleeps, saved, query_vars>>

\* an interaction loop that walks the user table as it grows
InteractFetchLive ==
    /\ pc = "InteractionExpansion" /\ Between
    /\ idx <= Len(user_dict["id"])
    /\ LET user_id == user_dict["id"][idx]
           f == CASE step = 1 ->
                       NewFetch("posts", str(user_id),
                                PostsQuery(str(user_id), None, None), FALSE,
                                POST_MAX_RESULTS, POST_LIMIT)
                  [] step = 2 ->
                       NewFetch("retweets", str(user_id),
                                RetweetsQuery(str(user_id)), FALSE,
                                RETWEET_MAX_RESULTS, RETWEET_LIMIT)
                  [] OTHER ->
                       NewFetch("likes", user_id, "", FALSE,
                                LIKE_MAX_RESULTS, LIKE_LIMIT)
       IN  /\ fetch' = f
           /\ fetches' = Append(fetches, CallOf(f))
    /\ UNCHANGED <<stores, raised, calls, pc, init_query, seed_users, users, idx,
                   step, sleeps, saved, query_vars>>

\* the next call of the loop body at lines 365-367, up to its Paginator
InteractFetch ==
    /\ pc = "InteractionExpansion" /\ Between
    /\ idx <= Len(users)
    /\ LET user_id == users[idx]
           f == CASE step = 1 ->
                       NewFetch("posts", str(user_id),
                                PostsQuery(str(user_id), None, None), FALSE,
                                POST_MAX_RESULTS, POST_LIMIT)
                  [] step = 2 ->
                       NewFetch("retweets", str(user_id),
                                RetweetsQuery(str(user_id)), FALSE,
                                RETWEET_MAX_RESULTS, RETWEET_LIMIT)
                  [] OTHER ->
                       NewFetch("likes", user_id, "", FALSE,
                                LIKE_MAX_RESULTS, LIKE_LIMIT)
       IN  /\ fetch' = f
           /\ fetches' = Append(fetches, CallOf(f))
    /\ UNCHANGED <<stores, raised, calls, pc, init_query, seed_users, users, idx,
                   step, sleeps, saved, query_vars>>

\* a crawl() that returns from the interaction loop without the summary
SummarizeSkipped ==
    /\ pc = "InteractionExpansion" /\ Between
    /\ idx > Len(users)
    /\ pc' = "Terminal"
    /\ UNCHANGED <<stores, raised, calls, init_query, seed_users, users, idx, step,
                   fetch, fetches, sleeps, saved, query_vars>>

\* the interaction loop is over: the summary is logged (crawler.py:369-379)
Summarize ==
    /\ pc = "InteractionExpansion" /\ Between
    /\ idx > Len(users)
    /\ pc' = "Summarized"
    /\ UNCHANGED <<stores, raised, calls, init_query, seed_users, users, idx, step,
                   fetch, fetches, sleeps, saved, query_vars>>

\* crawl() returns after the summary
Return ==
    /\ pc = "Summarized"
    /\ pc' = "Terminal"
    /\ UNCHANGED <<stores, raised, calls, init_query, seed_users, users, idx, step,
                   fetch, fetches, sleeps, saved, query_vars>>

\* a page loop without the call of time.sleep
GetPageNoSleep ==
    /\ fetch.op # "none" /\ raised = ""
    /\ fetch.page = NoPage
    /\ Len(fetch.pages) < fetch.limit
    /\ sleeps < MaxPages
    /\ \E page \in PagesOf(fetch) :
           fetch' = [fetch EXCEPT !.page = page]
    /\ UNCHANGED <<stores, raised, calls, pc, init_query, seed_users, users, idx,
                   step, fetches, sleeps, saved, query_vars>>

\* the Paginator yields its next page and the loop sleeps (lines 218-219,
\* 266-267, 305-306, 330-331): the page is in hand, not yet looked at
GetPage ==
    /\ fetch.op # "none" /\ raised = ""
    /\ fetch.page = NoPage
    /\ Len(fetch.pages) < fetch.limit
    /\ sleeps < MaxPages
    /\ \E page \in PagesOf(fetch) :
           fetch' = [fetch EXCEPT !.page = page]
    /\ sleeps' = sleeps + 1
    /\ UNCHANGED <<stores, raised, calls, pc, init_query, seed_users, users, idx,
                   step, fetches, saved, query_vars>>

\* an exception caught where it was raised, the run carrying on from there
CaughtInPlace(e) ==
    /\ raised' = e
    /\ pc' = pc
    /\ fetch' = fetch

\* what an exception does: it leaves the page loop and the phase loops and is
\* caught and logged by crawl()'s except clause (crawler.py:381-382), after
\* which crawl() returns; fetch keeps the call and the page that raised
Caught(e) ==
    /\ raised' = e
    /\ pc' = "Terminal"
    /\ fetch' = fetch

\* the page in hand is done with: the loop goes for the next one
Processed ==
    /\ raised' = ""
    /\ pc' = pc
    /\ fetch' = [fetch EXCEPT !.pages = Append(@, fetch.page), !.page = NoPage]

\* one iteration of the loop of get_user_followings (crawler.py:220-224)
FollowingsPage ==
    /\ fetch.op = "followings" /\ raised = ""
    /\ fetch.page # NoPage
    /\ IF PageOk(fetch.page)
       THEN LET r == FollowingsLoop(follow_dict, user_dict, fetch.arg,
                                    fetch.page.data)
            IN  /\ follow_dict' = r.follow
                /\ user_dict' = r.user
                /\ IF r.raised # "" THEN Caught(r.raised) ELSE Processed
       ELSE /\ UNCHANGED <<follow_dict, user_dict>>
            /\ Processed
    /\ UNCHANGED <<tweet_dict, post_dict, retweet_dict, like_dict, calls,
                   init_query, seed_users, users, idx, step, fetches, sleeps,
                   saved, query_vars>>

\* one iteration of the loop of get_user_posts (crawler.py:268-274)
PostsPageStep ==
    /\ fetch.op = "posts" /\ raised = ""
    /\ fetch.page # NoPage
    /\ IF PageOk(fetch.page)
       THEN LET r == PostsPage(post_dict, tweet_dict, user_dict, fetch.page)
            IN  /\ post_dict' = r.post
                /\ tweet_dict' = r.tweet
                /\ user_dict' = r.user
                /\ IF r.raised # "" THEN Caught(r.raised) ELSE Processed
       ELSE /\ UNCHANGED <<post_dict, tweet_dict, user_dict>>
            /\ Processed
    /\ UNCHANGED <<follow_dict, retweet_dict, like_dict, calls, init_query,
                   seed_users, users, idx, step, fetches, sleeps, saved,
                   query_vars>>

\* one iteration of the loop of get_user_retweets (crawler.py:307-310)
RetweetsPage ==
    /\ fetch.op = "retweets" /\ raised = ""
    /\ fetch.page # NoPage
    /\ IF PageOk(fetch.page)
       THEN LET r == RetweetsLoop(retweet_dict, tweet_dict, fetch.arg,
                                  fetch.page.data)
            IN  /\ retweet_dict' = r.retweet
                /\ tweet_dict' = r.tweet
       ELSE UNCHANGED <<retweet_dict, tweet_dict>>
    /\ Processed
    /\ UNCHANGED <<user_dict, follow_dict, post_dict, like_dict, calls,
                   init_query, seed_users, users, idx, step, fetches, sleeps,
                   saved, query_vars>>

\* one iteration of the loop of get_user_liked_tweets (crawler.py:332-335)
LikesPage ==
    /\ fetch.op = "likes" /\ raised = ""
    /\ fetch.page # NoPage
    /\ IF PageOk(fetch.page)
       THEN LET r == LikesLoop(like_dict, tweet_dict, fetch.arg, fetch.page.data)
            IN  /\ like_dict' = r.like
                /\ tweet_dict' = r.tweet
       ELSE UNCHANGED <<like_dict, tweet_dict>>
    /\ Processed
    /\ UNCHANGED <<user_dict, follow_dict, post_dict, retweet_dict, calls,
                   init_query, seed_users, users, idx, step, fetches, sleeps,
                   saved, query_vars>>

\* the Paginator is exhausted: the get_user_* call returns and the loop of
\* crawl() (or of init_seed_tweets) moves on
EndFetch ==
    /\ fetch.op # "none" /\ raised = ""
    /\ fetch.page = NoPage
    /\ fetch' = NoFetch
    /\ IF pc = "InteractionExpansion" /\ step < 3
       THEN step' = step + 1 /\ idx' = idx
       ELSE step' = (IF pc = "InteractionExpansion" THEN 1 ELSE step)
            /\ idx' = idx + 1
    /\ UNCHANGED <<stores, raised, calls, pc, init_query, seed_users, users,
                   fetches, sleeps, saved, query_vars>>

\* the request for the next page fails in the client: the exception leaves
\* the get_user_* call
TransportFault ==
    /\ fetch.op # "none" /\ raised = ""
    /\ fetch.page = NoPage
    /\ Len(fetch.pages) < fetch.limit
    /\ Caught("TransportError")
    /\ UNCHANGED <<stores, calls, init_query, seed_users, users, idx, step,
                   fetches, sleeps, saved, query_vars>>

\* pd.DataFrame(table): the rows of a column dictionary; columns of unequal
\* length are a ValueError
Rows(table, cols) ==
    [i \in 1..Len(table[cols[1]]) |-> [k \in DOMAIN cols |-> table[cols[k]][i]]]

RECURSIVE WriteFiles(_, _)
\* the to_csv calls of save(), in order, up to the first that raises
WriteFiles(written, todo) ==
    IF todo = <<>> THEN written
    ELSE LET t == Head(todo)
         IN  IF SameLength(t.table)
             THEN WriteFiles(Append(written,
                                    [name |-> t.name, header |-> t.cols,
                                     rows |-> Rows(t.table, t.cols)]),
                             Tail(todo))
             ELSE written

FileNames == <<"tweet.csv", "user.csv", "follow.csv", "post.csv", "retweet.csv",
               "like.csv">>

\* save() (crawler.py:385-397)
Save ==
    /\ pc = "Terminal"
    /\ saved' = WriteFiles(<<>>,
          << [name |-> FileNames[1], table |-> tweet_dict, cols |-> TweetCols],
             [name |-> FileNames[2], table |-> user_dict, cols |-> UserCols],
             [name |-> FileNames[3], table |-> follow_dict,
              cols |-> RelCols("following_id")],
             [name |-> FileNames[4], table |-> post_dict, cols |-> RelCols("tweet_id")],
             [name |-> FileNames[5], table |-> retweet_dict,
              cols |-> RelCols("tweet_id")],
             [name |-> FileNames[6], table |-> like_dict, cols |-> RelCols("tweet_id")] >>)
    /\ pc' = IF Len(saved') = Len(FileNames) THEN "Saved" ELSE "SaveFailed"
    /\ UNCHANGED <<stores, raised, calls, init_query, seed_users, users, idx, step,
                   fetch, fetches, sleeps, query_vars>>

Next ==
    \/ StartCrawl
    \/ SeedFetch
    \/ SeedDone
    \/ FollowFetch
    \/ FollowDone
    \/ InteractFetch
    \/ Summarize
    \/ Return
    \/ GetPage
    \/ FollowingsPage
    \/ PostsPageStep
    \/ RetweetsPage
    \/ LikesPage
    \/ EndFetch
    \/ TransportFault
    \/ Save

Spec == Init /\ [][Next]_vars

\* the main program as it runs: a single thread that always takes its next
\* step, every call of the Paginator returning (a page, its end or a fault)
FairSpec == Spec /\ WF_vars(Next)

-----------------------------------------------------------------------------
(* Claims about the crawl, checked under Spec. *)

IsPrefix(s, t) == Len(s) <= Len(t) /\ s = SubSeq(t, 1, Len(s))

From(s, n) == SubSeq(s, n + 1, Len(s))

RECURSIVE Flatten(_)
Flatten(ss) == IF ss = <<>> THEN <<>> ELSE Head(ss) \o Flatten(Tail(ss))

\* the pairs (column user_id, column object) of a relation table
Pairs(table, object) ==
    [i \in DOMAIN table["user_id"] |-> <<table["user_id"][i], table[object][i]>>]

\* the pages of the running fetch the loop has looked at: those processed and
\* the one on which an exception was raised
Looked == fetch.pages \o (IF raised \in {"TypeError", "KeyError"}
                          THEN <<fetch.page>> ELSE <<>>)

\* the users the pages of a fetch returned, page by page
Returned(pages) ==
    Flatten([k \in DOMAIN pages |->
                IF Len(pages[k].errors) = 0 /\ pages[k].meta.result_count > 0
                THEN pages[k].data ELSE <<>>])

IsProtected(u) == u.protected = PyBool(TRUE)

\* C3: in a list-followings fetch of user u, the Follow rows the fetch adds
\* are exactly the rows (u, v) of the unprotected users v its pages returned,
\* every such v is in the user table, and a protected user it returned gets
\* no Follow row and is not added to the user table by the fetch.
C3_ProtectedExclusion ==
    fetch.op = "followings" =>
        LET ret == Returned(Looked)
            open == SelectSeq(ret, LAMBDA v : ~IsProtected(v))
            closed == {v.id : v \in {w \in Range(ret) : IsProtected(w)}}
            gained == From(Pairs(follow_dict, "following_id"), fetch.start.follow)
            added == Range(From(user_dict["id"], fetch.start.user))
        IN  /\ gained = [k \in DOMAIN open |-> <<fetch.arg, open[k].id>>]
            /\ \A k \in DOMAIN open : open[k].id \in Range(user_dict["id"])
            /\ \A c \in closed :
                   /\ c \notin added
                   /\ \A k \in DOMAIN gained : gained[k][2] # c

\* C3 without the upsert that raises: what holds of every followings fetch
\* whose pages were all processed to the end
C3_HoldsUnlessUpsertRaises ==
    raised # "TypeError" => C3_ProtectedExclusion

\* the tables in the order save() writes them
Tables ==
    << [table |-> tweet_dict, cols |-> TweetCols],
       [table |-> user_dict, cols |-> UserCols],
       [table |-> follow_dict, cols |-> RelCols("following_id")],
       [table |-> post_dict, cols |-> RelCols("tweet_id")],
       [table |-> retweet_dict, cols |-> RelCols("tweet_id")],
       [table |-> like_dict, cols |-> RelCols("tweet_id")] >>

\* every cell of every column of every table is in the file of the table
AllExported ==
    /\ Len(saved) = Len(FileNames)
    /\ \A k \in DOMAIN Tables :
          /\ saved[k].name = FileNames[k]
          /\ \A c \in DOMAIN Tables[k].cols :
                LET col == Tables[k].table[Tables[k].cols[c]]
                IN  /\ Len(saved[k].rows) >= Len(col)
                    /\ \A i \in DOMAIN col : saved[k].rows[i][c] = col[i]

\* a fault was raised in InteractionExpansion while the second of two
\* frontier users was being expanded, the first one done
FaultAtSecondUser ==
    /\ raised # ""
    /\ Len(users) = 2
    /\ idx = 2
    /\ fetch.op \in {"posts", "retweets", "likes"} /\ ~fetch.is_init

\* C4: when a fault is raised in InteractionExpansion after the first of two
\* frontier users was processed, crawl() catches it and save() then writes
\* all six tables with every record accumulated up to the fault.
C4_PartialFailureExport ==
    FaultAtSecondUser =>
        /\ pc \in {"Terminal", "Saved"}
        /\ pc = "Saved" => AllExported

\* C4 for the faults that leave the tables rectangular: a failed page request
\* and a page without side-loaded users
C4_HoldsUnlessUpsertRaises ==
    raised # "TypeError" => C4_PartialFailureExport

\* the arguments of the list-followings calls made so far
FollowCalls ==
    LET c == SelectSeq(fetches, LAMBDA f : f.op = "followings")
    IN  [k \in DOMAIN c |-> c[k].arg]

FollowExpansionOver ==
    \/ pc \in {"InteractionExpansion", "Summarized"}
    \/ pc \in {"Terminal", "Saved", "SaveFailed"} /\ raised = ""

\* C6: the seed frontier is the id column of the user table at the moment
\* SeedExpansion completes; list-followings is called for the seed frontier's
\* users one by one in frontier order, once each when FollowExpansion runs to
\* its end, and never for a user added to the user table after the frontier
\* was taken.
C6_SeedFrontier ==
    /\ [][pc = "SeedExpansion" /\ pc' = "FollowExpansion"
              => seed_users' = user_dict["id"]]_vars
    /\ [](/\ IsPrefix(FollowCalls, seed_users)
          /\ IsPrefix(seed_users, user_dict["id"])
          /\ \A k \in DOMAIN FollowCalls :
                FollowCalls[k] = user_dict["id"][k] /\ k <= Len(seed_users)
          /\ FollowExpansionOver => FollowCalls = seed_users)

\* C6 witness: FollowExpansion ran to its end over a frontier of one user
\* and added two users, for whom list-followings was not called
C6_Witness ==
    /\ pc = "InteractionExpansion"
    /\ Len(seed_users) = 1
    /\ FollowCalls = seed_users
    /\ Len(user_dict["id"]) = 3
    /\ Len(follow_dict["user_id"]) = 2

\* the calls InteractionExpansion makes for a user, in order
CallsFor(user_id) ==
    << [op |-> "posts", arg |-> PyStr(ToString(user_id[2])),
        query |-> "Q (from:" \o ToString(user_id[2]) \o ")", is_init |-> FALSE,
        max_results |-> POST_MAX_RESULTS, limit |-> POST_LIMIT],
       [op |-> "retweets", arg |-> PyStr(ToString(user_id[2])),
        query |-> "is:retweet (from:" \o ToString(user_id[2]) \o ")",
        is_init |-> FALSE,
        max_results |-> RETWEET_MAX_RESULTS, limit |-> RETWEET_LIMIT],
       [op |-> "likes", arg |-> user_id, query |-> "", is_init |-> FALSE,
        max_results |-> LIKE_MAX_RESULTS, limit |-> LIKE_LIMIT] >>

\* the calls made after FollowExpansion
InteractCalls ==
    SelectSeq(fetches, LAMBDA f : f.op # "followings" /\ ~f.is_init)

InteractionOver ==
    \/ pc = "Summarized"
    \/ pc \in {"Terminal", "Saved", "SaveFailed"} /\ raised = ""

\* C7: the interaction frontier is the id column of the user table at the
\* moment FollowExpansion completes, the seed frontier first; for its users
\* in order the orchestrator calls the post search (author filter, non-seed
\* page size and limit), the retweet search and list-liked-posts, all three
\* for one user before the next, and for no user outside that frontier.
C7_InteractionFrontier ==
    /\ [][pc = "FollowExpansion" /\ pc' = "InteractionExpansion"
              => users' = user_dict["id"]]_vars
    /\ [](/\ IsPrefix(InteractCalls,
                      Flatten([k \in DOMAIN users |-> CallsFor(users[k])]))
          /\ IsPrefix(users, user_dict["id"])
          /\ pc \notin {"Init", "SeedExpansion", "FollowExpansion"}
                /\ (raised = "" \/ InteractCalls # <<>>)
                => IsPrefix(seed_users, users)
          /\ InteractionOver =>
                InteractCalls = Flatten([k \in DOMAIN users |-> CallsFor(users[k])]))

\* C7 witness: InteractionExpansion ran to its end over a frontier of a seed
\* user and a following, and a third user it added was not fetched
C7_Witness ==
    /\ pc = "Summarized"
    /\ Len(seed_users) = 1
    /\ Len(users) = 2
    /\ Len(user_dict["id"]) = 3
    /\ Len(InteractCalls) = 6

\* position of x in the sequence s
PosIn(s, x) == CHOOSE k \in DOMAIN s : s[k] = x

\* the subjects of the rows are frontier users, in frontier order
InFrontierOrder(subjects, frontier) ==
    /\ \A i \in DOMAIN subjects : subjects[i] \in Range(frontier)
    /\ \A i, j \in DOMAIN subjects :
          i < j => PosIn(frontier, subjects[i]) <= PosIn(frontier, subjects[j])

\* the pairs a fetch stores for the pages given, page by page and result by
\* result
RowsOf(subject, pages, keep(_)) ==
    LET r == SelectSeq(Returned(pages), keep)
    IN  [k \in DOMAIN r |-> <<subject, r[k].id>>]

AnyResult(x) == TRUE
OpenAccount(x) == ~IsProtected(x)

\* C8: the rows of the Follow table are grouped by seed-frontier user in
\* frontier order, those of the Retweet and Like tables by interaction
\* frontier user in frontier order, and the rows a fetch adds are those of
\* its pages in page order and, within a page, in result order: the tables
\* are a function of the page sequences received.
C8_RelationOrder ==
    /\ InFrontierOrder(follow_dict["user_id"], seed_users)
    /\ InFrontierOrder(retweet_dict["user_id"],
                       [k \in DOMAIN users |-> PyStr(ToString(users[k][2]))])
    /\ InFrontierOrder(like_dict["user_id"], users)
    /\ fetch.op = "followings" =>
          LET gained == From(Pairs(follow_dict, "following_id"), fetch.start.follow)
          IN  /\ IsPrefix(RowsOf(fetch.arg, fetch.pages, OpenAccount), gained)
              /\ IsPrefix(gained, RowsOf(fetch.arg, Looked, OpenAccount))
    /\ fetch.op = "retweets" =>
          From(Pairs(retweet_dict, "tweet_id"), fetch.start.retweet)
              = RowsOf(fetch.arg, fetch.pages, AnyResult)
    /\ fetch.op = "likes" =>
          From(Pairs(like_dict, "tweet_id"), fetch.start.like)
              = RowsOf(fetch.arg, fetch.pages, AnyResult)

\* C8 witness: a retweet page with two results for the first frontier user
\* and a page for the second one, stored in that order
C8_Witness ==
    /\ Len(users) = 2
    /\ retweet_dict["user_id"]
          = <<PyStr(ToString(users[1][2])), PyStr(ToString(users[1][2])),
              PyStr(ToString(users[2][2]))>>
    /\ retweet_dict["tweet_id"][1] # retweet_dict["tweet_id"][2]

-----------------------------------------------------------------------------
(* The state machine of crawl(). *)

\* the states of a crawl run, in the order crawl() goes through them
CrawlStates ==
    <<"Init", "SeedExpansion", "FollowExpansion", "InteractionExpansion",
      "Summarized", "Terminal">>

Rank(s) == PosIn(CrawlStates, s)

\* the states in which crawl() calls the fetch operations
ExpansionStates == {"SeedExpansion", "FollowExpansion", "InteractionExpansion"}

\* C11 as stated: every crawl run goes through Init, SeedExpansion,
\* FollowExpansion, InteractionExpansion, Summarized and Terminal in that
\* order, one after the other, each exactly once: a state is only ever
\* entered from the state before it.
C11_EachStateOnce ==
    [][pc' # pc /\ pc' \in Range(CrawlStates) => Rank(pc') = Rank(pc) + 1]_vars

\* C11 amended: the state of a crawl run only moves forward in the order
\* Init, SeedExpansion, FollowExpansion, InteractionExpansion, Summarized,
\* Terminal, so there is no cycle and no state is entered twice; while no
\* fault is raised each state is entered from the state before it, and a
\* fault raised in one of the three expansion states takes the run from
\* there to Terminal, the states in between not executed.
C11_ForwardOnly ==
    [][pc' # pc /\ pc' \in Range(CrawlStates) =>
          /\ pc \in Range(CrawlStates)
          /\ Rank(pc') > Rank(pc)
          /\ \/ raised' = "" /\ Rank(pc') = Rank(pc) + 1
             \/ /\ raised = "" /\ raised' # ""
                /\ pc \in ExpansionStates
                /\ pc' = "Terminal"]_vars

\* C11 witness: a fault raised by a list-followings call ended the run in
\* FollowExpansion, and crawl() returned without InteractionExpansion
C11_Witness ==
    /\ pc = "Terminal"
    /\ raised # ""
    /\ fetch.op = "followings"
    /\ users = <<>>
    /\ InteractCalls = <<>>

-----------------------------------------------------------------------------
(* Faults. *)

AfterCrawl == {"Terminal", "Saved", "SaveFailed"}

\* C12: a fault raised in SeedExpansion, FollowExpansion or
\* InteractionExpansion ends crawl() at once: from then on no page is
\* requested (no sleep either), no fetch call is started, no phase runs, no
\* store changes and the fault is not raised or reported again; the one step
\* left is save(), which runs on the stores as the fault left them.
C12_FaultAborts ==
    /\ [](raised # "" => pc \in AfterCrawl)
    /\ [](raised # "" /\ pc = "Terminal" => ENABLED Save)
    /\ [][raised = "" /\ raised' # "" =>
             pc \in ExpansionStates /\ pc' = "Terminal"]_vars
    /\ [][raised # "" =>
             /\ stores' = stores
             /\ raised' = raised
             /\ fetch' = fetch /\ fetches' = fetches /\ sleeps' = sleeps
             /\ seed_users' = seed_users /\ users' = users
             /\ pc = "Terminal" /\ pc' \in {"Saved", "SaveFailed"}]_vars

\* C12 witness: a fault in InteractionExpansion, after records of all three
\* phases were stored, and save() has run
C12_Witness ==
    /\ raised # ""
    /\ pc = "Saved"
    /\ fetch.op \in {"posts", "retweets", "likes"} /\ ~fetch.is_init
    /\ Len(follow_dict["user_id"]) > 0
    /\ Len(tweet_dict["id"]) > 0

-----------------------------------------------------------------------------
(* Pages. *)

\* a page with an error marker or without results
Skipped(page) == Len(page.errors) > 0 \/ page.meta.result_count = 0

\* the loop is done with the page it had in hand: it went on to the next
\* iteration or an exception left it
PageConsumed ==
    /\ fetch.op # "none" /\ fetch.page # NoPage
    /\ fetch' # fetch \/ raised' # raised

\* C13: in each of the four fetch operations, the iteration of the page loop
\* on a page with an error marker or a result count of zero changes none of
\* the six stores, whatever data the page carries, raises nothing, and
\* leaves the same fetch running, ready for its next page.
C13_SkippedPage ==
    [][PageConsumed /\ Skipped(fetch.page) =>
          /\ stores' = stores
          /\ raised' = "" /\ pc' = pc
          /\ fetch' = [fetch EXCEPT !.pages = Append(@, fetch.page),
                                    !.page = NoPage]]_vars

\* C13 witness: a list-followings fetch skipped a page that carried a user
\* under an error marker, stored nothing of it, and went on to store the
\* user of the next page
C13_Witness ==
    /\ fetch.op = "followings"
    /\ Len(fetch.pages) = 2
    /\ Len(fetch.pages[1].errors) > 0 /\ Len(fetch.pages[1].data) > 0
    /\ ~Skipped(fetch.pages[2])
    /\ fetch.pages[1].data[1].id \notin Range(user_dict["id"])
    /\ Len(follow_dict["user_id"]) = fetch.start.follow + 1

-----------------------------------------------------------------------------
(* The delay between pages. *)

\* the delays taken by the running fetch
SleepsOfFetch == sleeps - fetch.start.sleeps

\* the pages the running fetch has obtained: those its loop is done with and
\* the one in hand
Obtained == Len(fetch.pages) + (IF fetch.page # NoPage THEN 1 ELSE 0)

\* C14 as stated: the delay of a page is taken after the page's records were
\* processed into the stores, once per page: while a page with records is in
\* hand, its records not yet processed, the fetch has taken no more delays
\* than it has pages processed.
C14_DelayAfterProcessing ==
    fetch.op # "none" /\ fetch.page # NoPage /\ ~Skipped(fetch.page)
        => SleepsOfFetch <= Len(fetch.pages)

\* C14 amended: the delay is taken exactly once for every page a fetch
\* obtains, the last one included, right after the page is obtained and
\* before its records are processed into the stores (so before the next page
\* is requested): a fetch has taken as many delays as it has obtained pages,
\* and the step that takes a delay changes no store and leaves the page it
\* obtained in hand, unprocessed.
C14_DelayBeforeProcessing ==
    /\ [](fetch.op # "none" => SleepsOfFetch = Obtained)
    /\ [][sleeps' # sleeps =>
             /\ sleeps' = sleeps + 1
             /\ stores' = stores
             /\ fetch.page = NoPage /\ fetch'.page # NoPage
             /\ fetch'.pages = fetch.pages]_vars
    /\ [][fetch.op # "none" /\ fetch'.op # "none" /\ fetch'.pages # fetch.pages
             => sleeps' = sleeps]_vars

\* C14 witness: a fetch took its second delay with its second page in hand,
\* the first page processed and the second not yet
C14_Witness ==
    /\ fetch.op = "retweets"
    /\ raised = ""
    /\ SleepsOfFetch = 2
    /\ Len(fetch.pages) = 1 /\ ~Skipped(fetch.pages[1])
    /\ fetch.page # NoPage /\ ~Skipped(fetch.page)
    /\ Len(retweet_dict["user_id"]) = fetch.start.retweet + Len(fetch.pages[1].data)

-----------------------------------------------------------------------------
(* Growth of the stores. *)

\* every column of the table is what it was, with cells added at its end
Grown(before, after) ==
    \A f \in DOMAIN before : IsPrefix(before[f], after[f])

Empty(table) == \A f \in DOMAIN table : table[f] = <<>>

\* C15: the six stores are empty when a crawl starts, and every step of a
\* run, a step that ends in a fault and the steps after a fault included,
\* leaves each store with its former content as a prefix of the new one:
\* no cell is deleted, moved, overwritten or taken back.
C15_AppendOnly ==
    /\ [](pc = "Init" =>
             /\ Empty(tweet_dict) /\ Empty(user_dict) /\ Empty(follow_dict)
             /\ Empty(post_dict) /\ Empty(retweet_dict) /\ Empty(like_dict))
    /\ [][/\ Grown(tweet_dict, tweet_dict') /\ Grown(user_dict, user_dict')
          /\ Grown(follow_dict, follow_dict') /\ Grown(post_dict, post_dict')
          /\ Grown(retweet_dict, retweet_dict')
          /\ Grown(like_dict, like_dict')]_vars

\* C15 witness: a post search page stored a post and then raised for want of
\* side-loaded users, in InteractionExpansion; the rows of that page and of
\* the earlier phases are in the stores after crawl() has returned
C15_Witness ==
    /\ raised = "KeyError"
    /\ pc = "Saved"
    /\ ~fetch.is_init
    /\ Len(post_dict["user_id"]) > fetch.start.post
    /\ fetch.start.post > 0
    /\ Len(follow_dict["user_id"]) > 0

-----------------------------------------------------------------------------
(* The pages of a post search. *)

\* the user is a row of the user table: its id is in the id column and the
\* row of that id has a cell in every column
InUserTable(u) ==
    \E i \in DOMAIN user_dict["id"] :
        /\ user_dict["id"][i] = u.id
        /\ \A f \in DOMAIN user_dict : i <= Len(user_dict[f])

\* the users the pages side-loaded, page by page
Included(pages) ==
    Flatten([k \in DOMAIN pages |->
                IF ~Skipped(pages[k]) /\ "users" \in DOMAIN pages[k].includes
                THEN pages[k].includes.users ELSE <<>>])

\* C16: of every page with results and without error marker that the loop
\* of a post search (seed or not) has gone through, the Post relation has
\* one row (author_id, id) per result, in page order, whether the post was
\* already in the tweet table or not; every result is in the tweet table;
\* and every user of the page's side-loaded list is in the user table.
C16_PostsPage ==
    fetch.op = "posts" =>
        LET ret == Returned(Looked)
        IN  /\ From(Pairs(post_dict, "tweet_id"), fetch.start.post)
                  = [k \in DOMAIN ret |-> <<ret[k].author_id, ret[k].id>>]
            /\ \A k \in DOMAIN ret : ret[k].id \in Range(tweet_dict["id"])
            /\ \A u \in Range(Included(Looked)) : InUserTable(u)

\* C16 without the upsert that raises: what holds of every post search whose
\* pages raised nothing in update_user
C16_HoldsUnlessUpsertRaises ==
    raised # "TypeError" => C16_PostsPage

-----------------------------------------------------------------------------
(* Termination and the amount of work, checked under FairSpec. *)

\* the seed searches made so far
SeedCalls == SelectSeq(fetches, LAMBDA f : f.is_init)

\* crawl() has gone through its three phases without a fault
RanToEnd == raised = "" /\ pc \in {"Summarized"} \cup AfterCrawl

\* C17: with a finite seed list and Paginators that yield at most `limit`
\* pages and return, every crawl run reaches its terminal state; a run
\* without a fault makes one post search per seed, one list-followings call
\* per user of the seed frontier and three fetch calls per user of the
\* interaction frontier, and no more, however the user table grew meanwhile.
C17_Terminates ==
    /\ <>(pc = "Terminal")
    /\ [](fetch.op # "none" => Obtained <= fetch.limit)
    /\ [](RanToEnd =>
             /\ Len(SeedCalls) = Len(init_query)
             /\ FollowCalls = seed_users
             /\ InteractCalls = Flatten([k \in DOMAIN users |-> CallsFor(users[k])])
             /\ Len(fetches) = Len(init_query) + Len(seed_users) + 3 * Len(users))

\* C17 witness: a run without a fault has returned; the user table grew in
\* FollowExpansion and again in InteractionExpansion, and the calls made are
\* those of the two frontiers as they were taken
C17_Witness ==
    /\ pc = "Terminal" /\ raised = ""
    /\ Len(seed_users) = 1
    /\ Len(users) = 2
    /\ Len(user_dict["id"]) = 3
    /\ Len(fetches) = Len(init_query) + 1 + 6

-----------------------------------------------------------------------------
(* The shape of the tables. *)

\* C18: in every state of a run, the state an upsert or a fetch that ended
\* in a fault leaves behind included, the columns of each of the six tables
\* have the same length, so that save() can write all six files.
C18_Rectangular ==
    /\ \A k \in DOMAIN Tables : SameLength(Tables[k].table)
    /\ pc # "SaveFailed"

\* C18 without the upsert that raises: the tables are rectangular and save()
\* writes them all in every run in which update_user did not raise
C18_HoldsUnlessUpsertRaises ==
    raised # "TypeError" => C18_Rectangular

-----------------------------------------------------------------------------
(* What each phase and each fetch operation writes. *)

\* what a step of a phase or of a fetch operation leaves alone
FrameOfStep ==
    /\ pc = "SeedExpansion" =>
          UNCHANGED <<follow_dict, retweet_dict, like_dict>>
    /\ pc = "FollowExpansion" =>
          UNCHANGED <<tweet_dict, post_dict, retweet_dict, like_dict>>
    /\ pc = "InteractionExpansion" => UNCHANGED follow_dict
    /\ fetch.op = "followings" =>
          UNCHANGED <<tweet_dict, post_dict, retweet_dict, like_dict>>
    /\ fetch.op = "posts" =>
          UNCHANGED <<follow_dict, retweet_dict, like_dict>>
    /\ fetch.op = "retweets" =>
          UNCHANGED <<user_dict, follow_dict, post_dict, like_dict>>
    /\ fetch.op = "likes" =>
          UNCHANGED <<user_dict, follow_dict, post_dict, retweet_dict>>

\* Follow, Retweet and Like are empty until the phase that fills them
EmptyBeforePhase ==
    /\ pc \in {"Init", "SeedExpansion"} =>
          Empty(follow_dict) /\ Empty(retweet_dict) /\ Empty(like_dict)
    /\ pc = "FollowExpansion" => Empty(retweet_dict) /\ Empty(like_dict)
    /\ FollowCalls = <<>> => Empty(follow_dict)
    /\ InteractCalls = <<>> => Empty(retweet_dict) /\ Empty(like_dict)

\* the rows a step adds to the Retweet relation have the given subject
RetweetSubjectIs(subject) ==
    \A i \in DOMAIN retweet_dict'["user_id"] :
        i > Len(retweet_dict["user_id"]) => retweet_dict'["user_id"][i] = subject

\* C19 as stated: each phase and each fetch operation writes only its own
\* stores (SeedExpansion: tweet, user, Post; FollowExpansion: user, Follow;
\* InteractionExpansion: not Follow; retweet search: Retweet and tweet;
\* list-liked-posts: Like and tweet), and the subject of a row the retweet
\* search adds is the frontier user being expanded: the id of the user
\* table that the interaction loop is at.
C19_FrameEffects ==
    /\ []EmptyBeforePhase
    /\ [][/\ FrameOfStep
          /\ fetch.op = "retweets" => RetweetSubjectIs(users[idx])]_vars

\* C19 amended: the same frame effects, and the subject of a row the retweet
\* search adds is the text str(user_id) of the id of the frontier user being
\* expanded, the argument the search was called with, not the id itself.
C19_FrameEffectsStrSubject ==
    /\ []EmptyBeforePhase
    /\ [][/\ FrameOfStep
          /\ fetch.op = "retweets" =>
                /\ RetweetSubjectIs(str(users[idx]))
                /\ str(users[idx]) # users[idx]]_vars

\* C19 witness: the retweet search of the frontier user being expanded has
\* stored a row and a tweet, and nothing in the other stores
C19_Witness ==
    /\ pc = "InteractionExpansion"
    /\ fetch.op = "retweets"
    /\ Len(retweet_dict["user_id"]) > fetch.start.retweet
    /\ retweet_dict["user_id"][Len(retweet_dict["user_id"])] = str(users[idx])
    /\ Len(tweet_dict["id"]) > fetch.start.tweet
    /\ Lengths.user = fetch.start.user /\ Lengths.post = fetch.start.post
    /\ Lengths.like = fetch.start.like /\ Lengths.follow = fetch.start.follow

-----------------------------------------------------------------------------
(* References between the tables. *)

\* every fetch call made so far has returned normally
FetchReturned == raised = "" /\ fetch = NoFetch /\ fetches # <<>>

\* the objects of the relations are rows of the entity tables, and the
\* subjects of Follow and Like rows are users of the frontier of their phase
ObjectsStored ==
    /\ Range(post_dict["tweet_id"]) \subseteq Range(tweet_dict["id"])
    /\ Range(retweet_dict["tweet_id"]) \subseteq Range(tweet_dict["id"])
    /\ Range(like_dict["tweet_id"]) \subseteq Range(tweet_dict["id"])
    /\ Range(follow_dict["following_id"]) \subseteq Range(user_dict["id"])
    /\ Range(follow_dict["user_id"]) \subseteq Range(seed_users)
    /\ Range(like_dict["user_id"]) \subseteq Range(users)

\* C20 as stated: whenever a fetch call has returned normally, every tweet
\* id in the object column of Post, Retweet and Like is in the tweet table,
\* every following_id of Follow is in the user table, and every subject of a
\* Follow, Retweet or Like row is an id that was in the user table when the
\* frontier of its phase was taken.
C20_References ==
    FetchReturned =>
        /\ ObjectsStored
        /\ Range(retweet_dict["user_id"]) \subseteq Range(users)

\* C20 amended: the same, except that the subject of a Retweet row is the
\* text str(user_id) of an id of the interaction frontier, a value that is
\* itself in no frontier and in no id column.
C20_ReferencesStrSubject ==
    FetchReturned =>
        /\ ObjectsStored
        /\ Range(retweet_dict["user_id"]) \subseteq {str(u) : u \in Range(users)}
        /\ Range(retweet_dict["user_id"]) \cap Range(user_dict["id"]) = {}

\* C20 witness: the retweet search of a frontier user has returned, after
\* searches and a list-followings call that stored a post, a user and a
\* Follow row
C20_Witness ==
    /\ FetchReturned
    /\ pc = "InteractionExpansion" /\ step = 3
    /\ Len(post_dict["user_id"]) > 0
    /\ Len(follow_dict["user_id"]) > 0
    /\ Len(retweet_dict["user_id"]) > 0

====
